---- MODULE Spec2Model ----
(***************************************************************************)
(* x402-bch-axios: the 402 response-error handler installed by             *)
(* withPaymentInterceptor (src/index.js), the module-level currentUtxo     *)
(* cache it shares between all invocations, sendPayment and                *)
(* createPaymentHeader.                                                    *)
(*                                                                         *)
(* JavaScript runs each handler to its next `await` without interruption,  *)
(* so every action below is one such run: from the arrival of an error (or *)
(* the completion of an awaited promise) to the next await or to the       *)
(* settlement of the handler's promise.                                    *)
(***************************************************************************)
EXTENDS Integers, Sequences, FiniteSets, TLC

(* ----------------------------- bounds ---------------------------------- *)
\* number of original requests that can be in flight at the same time
MaxInFlight == 2
\* number of payments the wallet broadcasts before every further send fails
MaxTx == 2
\* deepest nesting of handler invocations for one original request
\* (1 = the handler of the original error, 2 = the handler of its replay's error)
MaxDepth == 2

\* longest accepts array handed to selectPaymentRequirements in a direct call
MaxLen == 3
\* number of times the retry queue calls the function handed to it before it
\* gives up and rejects with the last error
MaxAttempts == 2

Req == 1..MaxInFlight

(* --------------------------- program values ---------------------------- *)
\* currentUtxo.txid = null (src/index.js:19); real transaction ids are 1, 2, ...
NoTxid == 0
\* currentUtxo.vout = null (src/index.js:20)
NoVout == -1
\* x402Version absent from the 402 body (undefined, falsy)
NoVersion == 0
\* signer.paymentAmountSats not given (undefined, falsy in `a || b`)
NoAmount == 0

\* a property that is absent reads as undefined (here: a requirement without
\* minAmountRequired, line 189); arithmetic on undefined gives NaN (lines 199, 203)
Undefined == -1000000
NaN == -2000000

\* the default spend amounts a signer may be created with
SignerAmounts == {NoAmount, 1000, 2000}
\* the amounts a server asks for
Costs == {500, 1500}
Versions == {NoVersion, 1, 2}

SignerAddress == "bitcoincash:qptest"
PayTo == "bitcoincash:qprecv"

\* a requirement of the first generation: the amount is in minAmountRequired
Requirement(network, scheme, cost) ==
  [network |-> network, scheme |-> scheme, payTo |-> PayTo,
   minAmountRequired |-> cost, amount |-> Undefined]

\* a requirement of the second generation: the amount is in amount
AmountOnly(network, scheme, cost) ==
  [network |-> network, scheme |-> scheme, payTo |-> PayTo,
   minAmountRequired |-> Undefined, amount |-> cost]

\* the CAIP-2 identifier of BCH mainnet (README, src/index.js:305)
Caip2Mainnet == "bip122:000000000000000000651ef99cb9fcbe"
\* network identifiers servers put in a requirement: the legacy literal, BCH
\* mainnet and another chain of the bip122 namespace, and two foreign ones
Bip122Testnet == "bip122:000000000933ea01ad0ee984209779ba"
Networks == {"bch", Caip2Mainnet, Bip122Testnet, "eip155:84532", "btc"}
Schemes == {"utxo", "UTXO", "exact"}

\* placeholder of the local `paymentRequirements` before it is assigned
NoRequirement == Requirement("", "", 0)

\* the `accepts` arrays a server sends
AcceptLists ==
  { << >>,
    << Requirement("eth", "exact", 1500) >>,
    << Requirement("bch", "utxo", 500) >>,
    << Requirement("bch", "utxo", 1500) >>,
    << Requirement("eth", "exact", 500), Requirement("bch", "utxo", 1500),
       Requirement("bch", "utxo", 500) >> }

\* error.response.data.accepts: absent, a non-array value, or an array
AcceptsValues ==
  { [present |-> FALSE, isArray |-> FALSE, list |-> << >>],
    [present |-> TRUE, isArray |-> FALSE, list |-> << >>] }
  \cup { [present |-> TRUE, isArray |-> TRUE, list |-> l] : l \in AcceptLists }

EmptyHeaders == [n \in {} |-> ""]

\* error.config: absent, without a header map, or with an empty header map;
\* a request that has not been through the handler carries no retry marker
FreshConfigs ==
  { [present |-> FALSE, hasHeaders |-> FALSE, is402Retry |-> FALSE, headers |-> EmptyHeaders],
    [present |-> TRUE, hasHeaders |-> FALSE, is402Retry |-> FALSE, headers |-> EmptyHeaders],
    [present |-> TRUE, hasHeaders |-> TRUE, is402Retry |-> FALSE, headers |-> EmptyHeaders] }

NoAccepts == [present |-> FALSE, isArray |-> FALSE, list |-> << >>]

\* error.response.headers['payment-required']: absent, a value that is not
\* base64-encoded JSON, or the encoding of a challenge
NoPaymentRequired == [state |-> "absent", version |-> NoVersion, accepts |-> NoAccepts]
Garbage == [state |-> "garbage", version |-> NoVersion, accepts |-> NoAccepts]
Encoded(version, accepts) == [state |-> "encoded", version |-> version, accepts |-> accepts]

\* an error object of the HTTP client; id tells two error objects apart;
\* version and accepts are those of the response body
AxiosError(id, hasResponse, status, version, accepts, config) ==
  [id |-> id, hasResponse |-> hasResponse, status |-> status,
   version |-> version, accepts |-> accepts, config |-> config,
   paymentRequired |-> NoPaymentRequired]

\* the same response with a payment-required header
WithPaymentRequired(error, header) == [error EXCEPT !.paymentRequired = header]

GoodConfig == [present |-> TRUE, hasHeaders |-> TRUE, is402Retry |-> FALSE, headers |-> EmptyHeaders]

Accepts(list) == [present |-> TRUE, isArray |-> TRUE, list |-> list]
Bch(cost) == Accepts(<< Requirement("bch", "utxo", cost) >>)
\* a challenge whose first BCH utxo requirement comes second in the list
Mixed == Accepts(<< Requirement("eth", "exact", 500), Requirement("bch", "utxo", 1500),
                    Requirement("bch", "utxo", 500) >>)

\* the errors an original request can fail with: no response at all, a status
\* other than 402, a 402 with an unusable request configuration, a 402 whose
\* challenge offers nothing to pay, and a 402 that can be paid (each protocol
\* version occurs, and each amount)
OriginalErrors(r) ==
  { AxiosError(<<r, 1>>, FALSE, 0, NoVersion, NoAccepts, c) : c \in FreshConfigs }
  \cup { AxiosError(<<r, 1>>, TRUE, 500, NoVersion, NoAccepts, c) : c \in FreshConfigs }
  \cup { AxiosError(<<r, 1>>, TRUE, 402, 1, Bch(1500), c) : c \in FreshConfigs \ {GoodConfig} }
  \cup { AxiosError(<<r, 1>>, TRUE, 402, 1, a, GoodConfig) :
           a \in AcceptsValues \ {Bch(500), Bch(1500), Mixed} }
  \cup { AxiosError(<<r, 1>>, TRUE, 402, NoVersion, Bch(500), GoodConfig),
         AxiosError(<<r, 1>>, TRUE, 402, 1, Bch(1500), GoodConfig),
         AxiosError(<<r, 1>>, TRUE, 402, 2, Mixed, GoodConfig) }

\* what the server can answer to a replayed request that fails: 402 with the
\* same challenge again, another status, or no response; the error carries the
\* configuration the replay was sent with
ReplayErrors(r, depth, parent, config) ==
  { AxiosError(<<r, depth>>, TRUE, 402, parent.version, parent.accepts, config),
    AxiosError(<<r, depth>>, TRUE, 500, NoVersion, NoAccepts, config),
    AxiosError(<<r, depth>>, FALSE, 0, NoVersion, NoAccepts, config) }

Response(r, depth) == [id |-> <<r, depth>>, status |-> 200, data |-> "ok"]

\* new Error(message)
Error(message) == [message |-> message]

(* ------------------------ src/index.js, pure parts --------------------- *)
\* a handler that forgets the status: any error with a response is a challenge
IsPaymentRequiredAnyResponse(error) == error.hasResponse

\* line 169: !error.response || error.response.status !== 402
IsPaymentRequired(error) == error.hasResponse /\ error.status = 402

\* a check that looks for the configuration but not for its header map
HasRequestConfigPresentOnly(config) == config.present

\* line 175: !originalConfig || !originalConfig.headers
HasRequestConfig(config) == config.present /\ config.hasHeaders

\* a handler without the retry guard
IsRetryNever(config) == FALSE

\* line 179: originalConfig.__is402Retry
IsRetry(config) == config.is402Retry

\* a check that lets an empty array through
HasAcceptsNoLength(accepts) == accepts.present /\ accepts.isArray

\* line 184: !accepts || !Array.isArray(accepts) || accepts.length === 0
HasAccepts(accepts) == accepts.present /\ accepts.isArray /\ Len(accepts.list) > 0

\* line 59: req?.network === 'bch' && req?.scheme === 'utxo'
IsBchUtxo(req) == req.network = "bch" /\ req.scheme = "utxo"

\* lines 57-67: the first BCH utxo requirement, or a thrown Error
selectPaymentRequirements(accepts) ==
  LET bchRequirements == SelectSeq(accepts, IsBchUtxo)
  IN  IF Len(bchRequirements) = 0
      THEN [ok |-> FALSE, value |-> NoRequirement,
            error |-> Error("No BCH payment requirements found in 402 response")]
      ELSE [ok |-> TRUE, value |-> bchRequirements[1], error |-> Error("")]

\* line 189: const cost = paymentRequirements.minAmountRequired
Cost(paymentRequirements) == paymentRequirements.minAmountRequired

\* a numeric string: the text of the number n, as JSON carries "1500"; it is
\* a value of its own, apart from the number n
StringBase == 10000000
Str(n) == StringBase + n
IsString(x) == x >= StringBase

\* JavaScript's ToNumber on numbers and numeric strings
ToNumber(x) == IF IsString(x) THEN x - StringBase ELSE x

\* the decimal digits of a number, and the order of two texts
RECURSIVE Digits(_)
Digits(n) == IF n < 10 THEN << n >> ELSE Append(Digits(n \div 10), n % 10)
RECURSIVE LexLess(_, _)
LexLess(s, t) ==
  IF Len(t) = 0 THEN FALSE
  ELSE IF Len(s) = 0 THEN TRUE
  ELSE IF s[1] # t[1] THEN s[1] < t[1]
  ELSE LexLess(Tail(s), Tail(t))

\* JavaScript's a < b and a - b on numbers, numeric strings, undefined and
\* NaN: two strings are compared as texts, otherwise both sides are
\* converted to numbers; the difference is always a number
IsNumber(x) == x # Undefined /\ x # NaN
Less(a, b) ==
  /\ IsNumber(a) /\ IsNumber(b)
  /\ IF IsString(a) /\ IsString(b)
     THEN LexLess(Digits(ToNumber(a)), Digits(ToNumber(b)))
     ELSE ToNumber(a) < ToNumber(b)
Minus(a, b) == IF IsNumber(a) /\ IsNumber(b) THEN ToNumber(a) - ToNumber(b) ELSE NaN

\* a cache check that looks at the txid only
NeedsFundingNoBalance(cache, cost) == cache.txid = NoTxid

\* a cache check that funds again only once the output is used up
NeedsFundingEmptyOnly(cache, cost) == cache.txid = NoTxid \/ Less(cache.satsLeft, 1)

\* line 195: !currentUtxo.txid || currentUtxo.satsLeft < cost
NeedsFunding(cache, cost) == cache.txid = NoTxid \/ Less(cache.satsLeft, cost)

\* line 114: signer.paymentAmountSats || paymentRequirements.minAmountRequired
PaymentAmount(sgn, paymentRequirements) ==
  IF sgn.paymentAmountSats # NoAmount
  THEN sgn.paymentAmountSats
  ELSE paymentRequirements.minAmountRequired

\* a result that names the transaction broadcast before this one
PaymentOfPrevious(txid, paymentAmountSats) ==
  [txid |-> txid - 1, vout |-> 0, satsSent |-> paymentAmountSats]

\* lines 132-136: what sendPayment returns for the transaction id the queue yields
Payment(txid, paymentAmountSats) ==
  [txid |-> txid, vout |-> 0, satsSent |-> paymentAmountSats]

\* a funding that records the whole amount sent as left over
FundedCacheFull(payment, cost) ==
  [txid |-> payment.txid, vout |-> payment.vout, satsLeft |-> payment.satsSent]

\* lines 197-199 and 206-208: the cache after a funding
FundedCache(payment, cost) ==
  [txid |-> payment.txid, vout |-> payment.vout, satsLeft |-> Minus(payment.satsSent, cost)]

\* a reuse that does not write the decrement back
ReusedCacheNoDecrement(cache, cost) == cache

\* a reuse that empties the cache once the output is used up
ReusedCacheClearing(cache, cost) ==
  IF cache.satsLeft - cost = 0
  THEN [txid |-> NoTxid, vout |-> NoVout, satsLeft |-> 0]
  ELSE [txid |-> cache.txid, vout |-> cache.vout, satsLeft |-> cache.satsLeft - cost]

\* a reuse that subtracts the balance from the cost
ReusedCacheSwapped(cache, cost) ==
  [txid |-> cache.txid, vout |-> cache.vout, satsLeft |-> Minus(cost, cache.satsLeft)]

\* lines 201-203 and 206-208: the cache after a reuse
ReusedCache(cache, cost) ==
  [txid |-> cache.txid, vout |-> cache.vout, satsLeft |-> Minus(cache.satsLeft, cost)]

\* line 213: x402Version || 1
VersionOrDefault(version) == IF version # NoVersion THEN version ELSE 1

\* lines 87-94: the authorization object
Authorization(sgn, paymentRequirements, txid, vout) ==
  [from |-> sgn.address, to |-> paymentRequirements.payTo,
   value |-> paymentRequirements.minAmountRequired,
   txid |-> txid, vout |-> vout, amount |-> sgn.paymentAmountSats]

\* signer.signMessage(message): the signature names the key and the text signed
Sign(sgn, message) == [by |-> sgn.address, message |-> message]

\* lines 79-110: the X-PAYMENT header value (the JSON text, as its tree)
createPaymentHeader(sgn, paymentRequirements, x402Version, txid, vout) ==
  LET authorization == Authorization(sgn, paymentRequirements, txid, vout)
  IN  [x402Version |-> x402Version,
       scheme |-> IF paymentRequirements.scheme # "" THEN paymentRequirements.scheme ELSE "utxo",
       network |-> IF paymentRequirements.network # "" THEN paymentRequirements.network ELSE "bch",
       payload |-> [signature |-> Sign(sgn, authorization),
                    authorization |-> authorization]]

\* an attachment that forgets line 218, the retry marker
AttachPaymentNoMarker(config, paymentHeader) ==
  [config EXCEPT !.headers = ("X-PAYMENT" :> paymentHeader)
                             @@ ("Access-Control-Expose-Headers" :> "X-PAYMENT-RESPONSE")
                             @@ config.headers]

\* an attachment that forgets line 220, the CORS-exposure header
AttachPaymentNoExpose(config, paymentHeader) ==
  [config EXCEPT !.is402Retry = TRUE,
                 !.headers = ("X-PAYMENT" :> paymentHeader) @@ config.headers]

\* lines 218-220: the marker and the two headers put on the original configuration
AttachPayment(config, paymentHeader) ==
  [config EXCEPT !.is402Retry = TRUE,
                 !.headers = ("X-PAYMENT" :> paymentHeader)
                             @@ ("Access-Control-Expose-Headers" :> "X-PAYMENT-RESPONSE")
                             @@ config.headers]

(* ------------------------- handler invocations ------------------------- *)
Pending == [kind |-> "pending", value |-> Error("")]
\* the handler's promise fulfils with value / rejects with value
Resolve(value) == [kind |-> "resolved", value |-> value]
Reject(value) == [kind |-> "rejected", value |-> value]

\* a catch block that returns the error instead of rejecting with it
CatchSwallow(paymentError) == Resolve(paymentError)

\* lines 224-226: catch (paymentError) { return Promise.reject(paymentError) }
Catch(paymentError) == Reject(paymentError)

\* a replay whose failure is wrapped in a new error
ReplayOutcomeWrapped(replay) ==
  IF replay.kind = "resolved"
  THEN Resolve(replay.value)
  ELSE Reject(Error("Payment retry failed"))

\* lines 222-226: `return secondResponse` when the replay fulfils, the catch
\* block when it rejects
ReplayOutcome(replay) ==
  IF replay.kind = "resolved" THEN Resolve(replay.value) ELSE Catch(replay.value)

NoHeader == [state |-> "none",
             value |-> createPaymentHeader([address |-> "", paymentAmountSats |-> NoAmount],
                                           NoRequirement, NoVersion, NoTxid, NoVout)]

\* One invocation of the error handler (lines 168-227): where it is suspended
\* (pc), its argument (error, whose config is originalConfig), and its locals.
\*   pc = "init"    awaiting bchWallet.initialize()       (line 120)
\*   pc = "send"    awaiting retryQueue.addToQueue(...)   (line 130)
\*   pc = "header"  awaiting createPaymentHeader(...)     (line 210)
\*   pc = "replay"  awaiting axiosInstance.request(...)   (line 222)
\*   pc = "settled" the promise it returned has settled with `outcome`
\* branch records which arm of line 195 was taken, seen the value of
\* currentUtxo.satsLeft read at lines 195 and 203 when the cached output is
\* reused; txid and vout are the locals of lines 191-192.
NewFrame(error) ==
  [pc |-> "start", error |-> error, paymentRequirements |-> NoRequirement,
   branch |-> "none", seen |-> 0, txid |-> NoTxid, vout |-> NoVout,
   header |-> NoHeader, outcome |-> Pending]

\* an end of the invocation that leaves the retry marker on the configuration
\* a handler that never returns: its promise stays pending
SettledPending(frame, outcome) ==
  [NewFrame(frame.error) EXCEPT !.pc = "start", !.outcome = Pending]

SettledMarking(frame, outcome) ==
  [NewFrame([frame.error EXCEPT !.config.is402Retry = TRUE])
     EXCEPT !.pc = "settled", !.outcome = outcome]

\* the invocation is over: its locals are gone, its argument (with the
\* configuration object it may have changed) and its outcome remain
Settled(frame, outcome) ==
  [NewFrame(frame.error) EXCEPT !.pc = "settled", !.outcome = outcome]

\* a header signed over the locals as they are before lines 197-204 assign them
SettleAndSignStale(frame, sgn, branch, cache, signOk) ==
  [frame EXCEPT
     !.pc = "header",
     !.branch = branch,
     !.txid = cache.txid,
     !.vout = cache.vout,
     !.header = IF signOk
                THEN [state |-> "built",
                      value |-> createPaymentHeader(sgn, frame.paymentRequirements,
                                                    VersionOrDefault(frame.error.version),
                                                    frame.txid, frame.vout)]
                ELSE [NoHeader EXCEPT !.state = "thrown"]]

\* lines 206-216: write the cache, then call createPaymentHeader; signMessage
\* may throw, which rejects the promise createPaymentHeader returned
SettleAndSign(frame, sgn, branch, cache, signOk) ==
  [frame EXCEPT
     !.pc = "header",
     !.branch = branch,
     !.txid = cache.txid,
     !.vout = cache.vout,
     !.header = IF signOk
                THEN [state |-> "built",
                      value |-> createPaymentHeader(sgn, frame.paymentRequirements,
                                                    VersionOrDefault(frame.error.version),
                                                    cache.txid, cache.vout)]
                ELSE [NoHeader EXCEPT !.state = "thrown"]]

\* lines 169-216, from the call of the handler to its first await or to its
\* rejection: the frame it leaves behind, the cache it leaves behind, whether
\* it called the selector (line 188) and whether it called sendPayment
HandlerStart(cache, sgn, error, signOk) ==
  LET frame == NewFrame(error)
      selected == selectPaymentRequirements(error.accepts.list)
      chosen == [frame EXCEPT !.paymentRequirements = selected.value]
      cost == Cost(selected.value)
      stop(outcome) == [frame |-> Settled(frame, outcome), cache |-> cache,
                        selecting |-> FALSE, funding |-> FALSE]
  IN  IF ~IsPaymentRequired(error) THEN stop(Reject(error))
      ELSE IF ~HasRequestConfig(error.config)
        THEN stop(Reject(Error("Missing axios request configuration")))
      ELSE IF IsRetry(error.config) THEN stop(Reject(error))
      ELSE IF ~HasAccepts(error.accepts)
        THEN stop(Reject(Error("No payment requirements found in 402 response")))
      ELSE IF ~selected.ok
        THEN [stop(Catch(selected.error)) EXCEPT !.selecting = TRUE]
      ELSE IF NeedsFunding(cache, cost)
        THEN [frame |-> [chosen EXCEPT !.pc = "init", !.branch = "funding"],
              cache |-> cache, selecting |-> TRUE, funding |-> TRUE]
      ELSE [frame |-> SettleAndSign([chosen EXCEPT !.seen = cache.satsLeft], sgn, "reused",
                                    ReusedCache(cache, cost), signOk),
            cache |-> ReusedCache(cache, cost), selecting |-> TRUE, funding |-> FALSE]

\* no exported function has been called directly
NoCall == [op |-> "none"]

\* the sum of two amounts, as numbers
Plus(a, b) == IF IsNumber(a) /\ IsNumber(b) THEN ToNumber(a) + ToNumber(b) ELSE NaN

\* the account of the cached output: the satsSent of the funding that
\* produced it (line 199), the sum of the costs settled against it (the
\* cost of line 199 and those of line 203) and the address it pays (line
\* 125); nothing has been funded yet
NoFunding == [satsSent |-> 0, settled |-> 0, payTo |-> ""]
Funding(payment, paymentRequirements) ==
  [satsSent |-> payment.satsSent, settled |-> Cost(paymentRequirements),
   payTo |-> paymentRequirements.payTo]
Settle(account, cost) == [account EXCEPT !.settled = Plus(@, cost)]

(* ------------------------------- state --------------------------------- *)
VARIABLES
  currentUtxo,   \* the module-level cache (lines 18-22)
  signer,        \* the signer the interceptor was created with
  stack,         \* per original request: its handler invocations, innermost last
  txCount,       \* transactions broadcast so far (the next txid is txCount + 1)
  fundCalls,     \* per original request: calls of sendPayment
  replays,       \* per original request: calls of axiosInstance.request by the handler
  selectorCalls, \* per original request: calls of paymentRequirementsSelector
  call,          \* the last direct call of an exported function, with its result
  ledger         \* history: what the last funding sent and what was settled against it

vars == <<currentUtxo, signer, stack, txCount, fundCalls, replays, selectorCalls, call, ledger>>

Depth(r) == Len(stack[r])
Top(r) == stack[r][Len(stack[r])]
SetTop(r, frame) == [stack EXCEPT ![r] = [@ EXCEPT ![Len(@)] = frame]]

Init ==
  /\ currentUtxo = [txid |-> NoTxid, vout |-> NoVout, satsLeft |-> 0]
  /\ signer \in { [address |-> SignerAddress, paymentAmountSats |-> a] : a \in SignerAmounts }
  /\ stack = [r \in Req |-> << >>]
  /\ txCount = 0
  /\ fundCalls = [r \in Req |-> 0]
  /\ replays = [r \in Req |-> 0]
  /\ selectorCalls = [r \in Req |-> 0]
  /\ call = NoCall
  /\ ledger = NoFunding

\* the handler is called with `error` for request r on top of r's stack
Invoke(r, error, below) ==
  \E signOk \in BOOLEAN :
    LET started == HandlerStart(currentUtxo, signer, error, signOk)
    IN  /\ stack' = [stack EXCEPT ![r] = Append(below, started.frame)]
        /\ currentUtxo' = started.cache
        /\ fundCalls' = [fundCalls EXCEPT ![r] = @ + (IF started.funding THEN 1 ELSE 0)]
        /\ selectorCalls' = [selectorCalls EXCEPT ![r] = @ + (IF started.selecting THEN 1 ELSE 0)]
        /\ ledger' = IF started.frame.branch = "reused"
                     THEN Settle(ledger, Cost(started.frame.paymentRequirements))
                     ELSE ledger
        /\ UNCHANGED <<signer, txCount, replays, call>>

\* An original request fails and its error reaches the interceptor.  A new
\* request takes the lowest free slot.
Intercept(r) ==
  /\ stack[r] = << >>
  /\ \A q \in Req : q < r => stack[q] # << >>
  /\ \E error \in OriginalErrors(r) : Invoke(r, error, << >>)

\* The caller of the original request has received the outcome; the slot is
\* free for the next request.
Consume(r) ==
  /\ Depth(r) = 1
  /\ Top(r).pc = "settled"
  /\ stack' = [stack EXCEPT ![r] = << >>]
  /\ fundCalls' = [fundCalls EXCEPT ![r] = 0]
  /\ replays' = [replays EXCEPT ![r] = 0]
  /\ selectorCalls' = [selectorCalls EXCEPT ![r] = 0]
  /\ UNCHANGED <<currentUtxo, signer, txCount, call, ledger>>

\* line 120: bchWallet.initialize() settles
WalletInitialized(r) ==
  /\ stack[r] # << >>
  /\ Top(r).pc = "init"
  /\ \/ stack' = SetTop(r, [Top(r) EXCEPT !.pc = "send"])
     \/ stack' = SetTop(r, Settled(Top(r), Catch(Error("wallet initialization failed"))))
  /\ UNCHANGED <<currentUtxo, signer, txCount, fundCalls, replays, selectorCalls, call, ledger>>

\* line 130: the retry queue settles; on success sendPayment returns and the
\* handler runs lines 197-216
PaymentSent(r) ==
  /\ stack[r] # << >>
  /\ Top(r).pc = "send"
  /\ \/ \E signOk \in BOOLEAN :
          LET amount == PaymentAmount(signer, Top(r).paymentRequirements)
              payment == Payment(txCount + 1, amount)
              cache == FundedCache(payment, Cost(Top(r).paymentRequirements))
          IN  /\ txCount < MaxTx
              /\ txCount' = txCount + 1
              /\ currentUtxo' = cache
              /\ ledger' = Funding(payment, Top(r).paymentRequirements)
              /\ stack' = SetTop(r, SettleAndSign(Top(r), signer, "funded", cache, signOk))
     \/ /\ stack' = SetTop(r, Settled(Top(r), Catch(Error("wallet send failed"))))
        /\ UNCHANGED <<currentUtxo, txCount, ledger>>
  /\ UNCHANGED <<signer, fundCalls, replays, selectorCalls, call>>

\* line 210 resumes: lines 218-222 mark the configuration, attach the headers
\* and issue the replay; or the rejection of createPaymentHeader is caught
HeaderBuilt(r) ==
  /\ stack[r] # << >>
  /\ Top(r).pc = "header"
  /\ \/ /\ Top(r).header.state = "built"
        /\ stack' = SetTop(r, [Top(r) EXCEPT
                                 !.pc = "replay",
                                 !.error.config = AttachPayment(@, Top(r).header.value)])
        /\ replays' = [replays EXCEPT ![r] = @ + 1]
     \/ /\ Top(r).header.state = "thrown"
        /\ stack' = SetTop(r, Settled(Top(r), Catch(Error("signMessage failed"))))
        /\ UNCHANGED replays
  /\ UNCHANGED <<currentUtxo, signer, txCount, fundCalls, selectorCalls, call, ledger>>

\* the replay is answered with success: the fulfilment handler `response =>
\* response` (line 167) passes it on and line 223 returns it
ReplaySucceeds(r) ==
  /\ stack[r] # << >>
  /\ Top(r).pc = "replay"
  /\ stack' = SetTop(r, Settled(Top(r), ReplayOutcome(Resolve(Response(r, Depth(r))))))
  /\ UNCHANGED <<currentUtxo, signer, txCount, fundCalls, replays, selectorCalls, call, ledger>>

\* the replay fails: its error goes through the same interceptor, so the
\* handler is invoked again, with the configuration the replay was sent with
ReplayFails(r) ==
  /\ stack[r] # << >>
  /\ Top(r).pc = "replay"
  /\ Depth(r) < MaxDepth
  /\ \E error \in ReplayErrors(r, Depth(r) + 1, Top(r).error, Top(r).error.config) :
       Invoke(r, error, stack[r])

\* a nested invocation has settled: the replay its caller awaits settles the
\* same way and the caller finishes (lines 222-226)
ReplaySettled(r) ==
  /\ Depth(r) > 1
  /\ Top(r).pc = "settled"
  /\ LET caller == stack[r][Depth(r) - 1]
     IN  stack' = [stack EXCEPT ![r] =
                     Append(SubSeq(@, 1, Len(@) - 2),
                            Settled(caller, ReplayOutcome(Top(r).outcome)))]
  /\ UNCHANGED <<currentUtxo, signer, txCount, fundCalls, replays, selectorCalls, call, ledger>>

Next ==
  \E r \in Req :
    \/ Intercept(r)
    \/ Consume(r)
    \/ WalletInitialized(r)
    \/ PaymentSent(r)
    \/ HeaderBuilt(r)
    \/ ReplaySucceeds(r)
    \/ ReplayFails(r)
    \/ ReplaySettled(r)

Spec == Init /\ [][Next]_vars

\* the event loop runs whatever is ready: some enabled step is eventually taken
FairSpec == Spec /\ WF_vars(Next)

\* every promise a handler awaits settles: the initialization of the wallet
\* (line 120), the retry queue (line 130), createPaymentHeader (line 210) and
\* the replay (line 222), for each request on its own
LiveSpec ==
  /\ Spec
  /\ \A r \in Req :
       /\ WF_vars(WalletInitialized(r))
       /\ WF_vars(PaymentSent(r))
       /\ WF_vars(HeaderBuilt(r))
       /\ WF_vars(ReplaySucceeds(r) \/ ReplayFails(r))
       /\ WF_vars(ReplaySettled(r))

(* ------------- servers of the second generation, a stubbed queue -------- *)
\* a challenge whose only requirement carries `amount`
BchAmount(cost) == Accepts(<< AmountOnly("bch", "utxo", cost) >>)

\* the 402 errors of servers that follow the second generation of the
\* protocol: the challenge in the payment-required header and nothing in the
\* body; a header that does not decode, with the challenge in the body; the
\* amount in `amount`
Generation2Errors(r) ==
  { WithPaymentRequired(AxiosError(<<r, 1>>, TRUE, 402, NoVersion, NoAccepts, GoodConfig),
                        Encoded(2, Bch(500))),
    WithPaymentRequired(AxiosError(<<r, 1>>, TRUE, 402, 1, Bch(1500), GoodConfig), Garbage),
    AxiosError(<<r, 1>>, TRUE, 402, 2, BchAmount(1500), GoodConfig) }

\* an original request to such a server fails and its error reaches the
\* interceptor
InterceptGeneration2(r) ==
  /\ stack[r] = << >>
  /\ \A q \in Req : q < r => stack[q] # << >>
  /\ \E error \in Generation2Errors(r) : Invoke(r, error, << >>)

\* line 130: the retry queue resolves with null (the queue stub of
\* src/unnamed/part_001:679); sendPayment returns {txid: null, vout: 0,
\* satsSent} and the handler runs lines 197-216
QueueYieldsNull(r) ==
  /\ stack[r] # << >>
  /\ Top(r).pc = "send"
  /\ \E signOk \in BOOLEAN :
       LET amount == PaymentAmount(signer, Top(r).paymentRequirements)
           payment == Payment(NoTxid, amount)
           cache == FundedCache(payment, Cost(Top(r).paymentRequirements))
       IN  /\ currentUtxo' = cache
           /\ ledger' = Funding(payment, Top(r).paymentRequirements)
           /\ stack' = SetTop(r, SettleAndSign(Top(r), signer, "funded", cache, signOk))
  /\ UNCHANGED <<signer, txCount, fundCalls, replays, selectorCalls, call>>

OpenNext ==
  \/ Next
  \/ \E r \in Req : InterceptGeneration2(r) \/ QueueYieldsNull(r)

\* the interceptor with servers of both generations and a retry queue that
\* may resolve with null
OpenSpec == Init /\ [][OpenNext]_vars

(* ------------------ amounts that arrive as numeric strings -------------- *)
\* the 402 errors of servers that send the amount as a numeric string: in
\* minAmountRequired and in amount
NumericStringErrors(r) ==
  { AxiosError(<<r, 1>>, TRUE, 402, 1, Bch(Str(1500)), GoodConfig),
    AxiosError(<<r, 1>>, TRUE, 402, 2, BchAmount(Str(1500)), GoodConfig) }

\* an original request to such a server fails and its error reaches the
\* interceptor
InterceptNumericString(r) ==
  /\ stack[r] = << >>
  /\ \A q \in Req : q < r => stack[q] # << >>
  /\ \E error \in NumericStringErrors(r) : Invoke(r, error, << >>)

StringNext ==
  \/ Next
  \/ \E r \in Req : InterceptNumericString(r)

\* the interceptor with servers that send amounts as numbers and as strings
StringSpec == Init /\ [][StringNext]_vars

(* --------------------- servers with different payees -------------------- *)
\* the address another server wants to be paid at
OtherPayTo == "bitcoincash:qpother"

\* the challenge of such a server: one BCH utxo requirement, 500 owed
OtherPayeeErrors(r) ==
  { AxiosError(<<r, 1>>, TRUE, 402, 1,
               Accepts(<< [Requirement("bch", "utxo", 500) EXCEPT !.payTo = OtherPayTo] >>),
               GoodConfig) }

\* an original request to that server fails and its error reaches the
\* interceptor
InterceptOtherPayee(r) ==
  /\ stack[r] = << >>
  /\ \A q \in Req : q < r => stack[q] # << >>
  /\ \E error \in OtherPayeeErrors(r) : Invoke(r, error, << >>)

PayeeNext ==
  \/ Next
  \/ \E r \in Req : InterceptOtherPayee(r)

\* the interceptor on an axios instance whose requests go to servers with
\* different payTo addresses
PayeeSpec == Init /\ [][PayeeNext]_vars

(* ------------------- the exported functions, called directly ------------ *)
\* the accepts arrays of a direct call: every array of at most MaxLen
\* requirements (a call without argument takes the default, the empty array)
DirectRequirements == { Requirement(n, s, c) : n \in Networks, s \in Schemes, c \in Costs }
DirectAccepts == UNION { [1..n -> DirectRequirements] : n \in 0..MaxLen }

\* the requirements of a direct createPaymentHeader call: with and without
\* scheme and network
HeaderRequirements ==
  { Requirement(n, s, 1500) : n \in {"", "bch", Caip2Mainnet}, s \in {"", "utxo"} }

\* line 82: x402Version = 1, the default of an omitted argument
VersionParameter(version) == IF version = NoVersion THEN 1 ELSE version

\* selectPaymentRequirements(accepts), lines 57-67
CallSelectPaymentRequirements ==
  /\ call = NoCall
  /\ \E accepts \in DirectAccepts :
       call' = [op |-> "selectPaymentRequirements", accepts |-> accepts,
                result |-> selectPaymentRequirements(accepts)]
  /\ UNCHANGED <<currentUtxo, signer, stack, txCount, fundCalls, replays, selectorCalls, ledger>>

\* createPaymentHeader(signer, paymentRequirements, x402Version, txid, vout),
\* lines 79-110; the promise rejects when signMessage throws
CallCreatePaymentHeader ==
  /\ call = NoCall
  /\ \E paymentRequirements \in HeaderRequirements, version \in {NoVersion, 1, 2, 3},
        txid \in {NoTxid, 1}, vout \in {NoVout, 0}, signOk \in BOOLEAN :
       call' = [op |-> "createPaymentHeader", paymentRequirements |-> paymentRequirements,
                x402Version |-> version, txid |-> txid, vout |-> vout,
                result |-> IF signOk
                           THEN Resolve(createPaymentHeader(signer, paymentRequirements,
                                                            VersionParameter(version), txid, vout))
                           ELSE Reject(Error("signMessage failed"))]
  /\ UNCHANGED <<currentUtxo, signer, stack, txCount, fundCalls, replays, selectorCalls, ledger>>

CallNext == CallSelectPaymentRequirements \/ CallCreatePaymentHeader

\* a program that calls one exported function, once
ExportsSpec == Init /\ [][CallNext]_vars

(* ----------------------- sendPayment, called directly ------------------- *)
\* the signers of a direct call: without a default spend amount and with one
DirectSigners ==
  { [address |-> SignerAddress, paymentAmountSats |-> a] : a \in {NoAmount, 2000, 10000} }

\* the requirements of a direct call: the amount in minAmountRequired, in
\* amount, and in both
FundingRequirements ==
  { Requirement("bch", "utxo", 1500),
    AmountOnly(Caip2Mainnet, "utxo", 1500),
    [Requirement("bch", "utxo", 500) EXCEPT !.amount = 1500] }

\* bchServerConfig.bchServerURL: not configured, a generic server, and two
\* endpoints of the provider the documentation names
NoURL == ""
GenericURL == "https://api.example.com"
FullstackURL == "https://bch.fullstack.cash/v5/"
FreeFullstackURL == "https://free-bch.fullstack.cash"
ServerURLs == {NoURL, GenericURL, FullstackURL, FreeFullstackURL}

\* the messages bchWallet.send fails with
WalletMessages ==
  {"Insufficient balance", "Error: Insufficient balance for this transaction",
   "INSUFFICIENT BALANCE", "Network error"}

\* what one call of bchWallet.send(receivers) ends with: the txid of the
\* transaction it broadcast, or an error
WalletSend(ok, txid, message) == IF ok THEN Resolve(txid) ELSE Reject(Error(message))

\* line 130: the function handed to the queue is bchWallet.send itself, bound
\* to the wallet: it ends the way the wallet's send ends
SendWithRetry(sent) == sent

\* lines 116-130: the code has one way to fund, whatever bchServerURL is:
\* the URL goes to the wallet as restURL and the wallet's send to the queue
FundingPath(bchServerURL) == "delegated"

\* receivers that pay the amount owed whatever the signer's amount is
ReceiversOwed(paymentRequirements, paymentAmountSats) ==
  << [address |-> paymentRequirements.payTo,
      amountSat |-> paymentRequirements.minAmountRequired] >>

\* lines 123-128: the receivers handed to the queue
Receivers(paymentRequirements, paymentAmountSats) ==
  << [address |-> paymentRequirements.payTo, amountSat |-> paymentAmountSats] >>

\* a sendPayment that constructs its retry queue before the wallet is
\* initialized
SendPaymentStartQueueFirst(sgn, paymentRequirements, bchServerURL) ==
  [op |-> "sendPayment", signer |-> sgn, paymentRequirements |-> paymentRequirements,
   bchServerURL |-> bchServerURL, restURL |-> bchServerURL,
   path |-> FundingPath(bchServerURL), pc |-> "init",
   paymentAmountSats |-> PaymentAmount(sgn, paymentRequirements),
   queues |-> 1, receivers |-> << >>, attempts |-> 0,
   sent |-> Pending, returned |-> Pending, result |-> Pending]

\* lines 112-120: sendPayment up to `await bchWallet.initialize()`
SendPaymentStart(sgn, paymentRequirements, bchServerURL) ==
  [op |-> "sendPayment", signer |-> sgn, paymentRequirements |-> paymentRequirements,
   bchServerURL |-> bchServerURL, restURL |-> bchServerURL,
   path |-> FundingPath(bchServerURL), pc |-> "init",
   paymentAmountSats |-> PaymentAmount(sgn, paymentRequirements),
   queues |-> 0, receivers |-> << >>, attempts |-> 0,
   sent |-> Pending, returned |-> Pending, result |-> Pending]

\* sendPayment(signer, paymentRequirements, bchServerConfig) is called
CallSendPayment ==
  /\ call = NoCall
  /\ \E sgn \in DirectSigners, paymentRequirements \in FundingRequirements,
        bchServerURL \in ServerURLs :
       call' = SendPaymentStart(sgn, paymentRequirements, bchServerURL)
  /\ UNCHANGED <<currentUtxo, signer, stack, txCount, fundCalls, replays, selectorCalls, ledger>>

\* line 120 settles: initialize() rejects and so does sendPayment, or lines
\* 122-130 construct the queue and the receivers and hand the send to the queue
SendPaymentInitialized ==
  /\ call.op = "sendPayment" /\ call.pc = "init"
  /\ \/ call' = [call EXCEPT !.pc = "done",
                              !.result = Reject(Error("wallet initialization failed"))]
     \/ call' = [call EXCEPT !.pc = "queue", !.queues = @ + 1,
                              !.receivers = Receivers(call.paymentRequirements,
                                                      call.paymentAmountSats)]
  /\ UNCHANGED <<currentUtxo, signer, stack, txCount, fundCalls, replays, selectorCalls, ledger>>

\* the queue calls the function handed to it (line 130): when that resolves,
\* the queue resolves and sendPayment returns (lines 132-136); when it throws,
\* the queue tries again, and after its last attempt rejects with the error
QueueAttempt ==
  /\ call.op = "sendPayment" /\ call.pc = "queue"
  /\ call.attempts < MaxAttempts
  /\ txCount < MaxTx
  /\ \E ok \in BOOLEAN, message \in WalletMessages :
       LET sent == WalletSend(ok, txCount + 1, message)
           returned == SendWithRetry(sent)
           tried == [call EXCEPT !.attempts = @ + 1, !.sent = sent, !.returned = returned]
       IN  /\ call' = IF returned.kind = "resolved"
                      THEN [tried EXCEPT !.pc = "done",
                                         !.result = Resolve(Payment(returned.value,
                                                                    call.paymentAmountSats))]
                      ELSE IF tried.attempts = MaxAttempts
                      THEN [tried EXCEPT !.pc = "done", !.result = Reject(returned.value)]
                      ELSE tried
           /\ txCount' = IF sent.kind = "resolved" THEN txCount + 1 ELSE txCount
  /\ UNCHANGED <<currentUtxo, signer, stack, fundCalls, replays, selectorCalls, ledger>>

FundingNext == CallSendPayment \/ SendPaymentInitialized \/ QueueAttempt

\* a program that calls sendPayment, once
FundingSpec == Init /\ [][FundingNext]_vars

(* ------------------------ vocabulary of the claims ---------------------- *)
\* the handler was called for request r in this step
Invoked(r) == Len(stack'[r]) = Len(stack[r]) + 1
NewTop(r) == stack'[r][Len(stack'[r])]
\* the innermost invocation of r went on, without a call or a return
Continued(r) == Len(stack[r]) > 0 /\ Len(stack'[r]) = Len(stack[r]) /\ stack'[r] # stack[r]

IsAxiosError(value) == "hasResponse" \in DOMAIN value

\* the positions of the BCH utxo requirements of a challenge
Qualifying(list) ==
  { i \in 1..Len(list) : list[i].network = "bch" /\ list[i].scheme = "utxo" }

UsableConfig(error) == error.config.present /\ error.config.hasHeaders

\* a 402 the handler goes on to pay for
Resolvable(error) ==
  /\ error.hasResponse /\ error.status = 402
  /\ UsableConfig(error) /\ ~error.config.is402Retry
  /\ error.accepts.present /\ error.accepts.isArray
  /\ Qualifying(error.accepts.list) # {}

\* the amount owed for a resolvable 402
Owed(error) ==
  LET q == Qualifying(error.accepts.list)
      first == CHOOSE i \in q : \A j \in q : i <= j
  IN  error.accepts.list[first].minAmountRequired

EmptyCache == [txid |-> NoTxid, vout |-> NoVout, satsLeft |-> 0]

\* the challenge of a 402 as the documentation extracts it: from the
\* payment-required header when it decodes, from the body otherwise
Challenge(error) ==
  IF error.paymentRequired.state = "encoded"
  THEN [version |-> error.paymentRequired.version, accepts |-> error.paymentRequired.accepts]
  ELSE [version |-> error.version, accepts |-> error.accepts]

\* the first BCH utxo requirement of a list that has one
FirstQualifying(list) ==
  list[CHOOSE i \in Qualifying(list) : \A j \in Qualifying(list) : i <= j]

\* the requirement that says the same with the amount in minAmountRequired
Twin(req) ==
  IF req.minAmountRequired = Undefined /\ req.amount # Undefined
  THEN [req EXCEPT !.minAmountRequired = req.amount, !.amount = Undefined]
  ELSE req

\* the network classification of the documentation: the legacy literal, the
\* CAIP-2 mainnet identifier, and every identifier of the bip122 namespace
\* (the identifiers among Networks that start with 'bip122:')
Bip122Namespace == {Caip2Mainnet, Bip122Testnet}
Supported(network) ==
  network = "bch" \/ network = Caip2Mainnet \/ network \in Bip122Namespace

\* the positions of the requirements with a supported network and scheme utxo
SupportedUtxo(list) ==
  { i \in 1..Len(list) : Supported(list[i].network) /\ list[i].scheme = "utxo" }

\* in-flight invocations that reused the cached output
Reusers ==
  { p \in Req \X (1..MaxDepth) :
      p[2] <= Len(stack[p[1]]) /\ stack[p[1]][p[2]].branch = "reused" }
Low(p) == stack[p[1]][p[2]].seen - stack[p[1]][p[2]].paymentRequirements.minAmountRequired
High(p) == stack[p[1]][p[2]].seen


C2_RetryGuard ==
  [][\A r \in Req :
       (/\ Invoked(r)
        /\ NewTop(r).error.hasResponse /\ NewTop(r).error.status = 402
        /\ UsableConfig(NewTop(r).error)
        /\ NewTop(r).error.config.is402Retry)
       => /\ NewTop(r).pc = "settled"
          /\ NewTop(r).outcome = Reject(NewTop(r).error)
          /\ fundCalls' = fundCalls /\ replays' = replays
          /\ txCount' = txCount /\ currentUtxo' = currentUtxo]_vars

\* a marked 402 was rejected with itself while the cache holds an output
C2_Witness ==
  \E r \in Req :
    /\ Depth(r) = 2 /\ Top(r).pc = "settled"
    /\ Top(r).error.status = 402 /\ Top(r).error.config.is402Retry
    /\ Top(r).outcome = Reject(Top(r).error)
    /\ currentUtxo.txid # NoTxid

\* C3: a 402 resolved while the cache holds a txid and at least the amount
\* owed makes no funding call, uses the cached txid and vout for the header,
\* leaves them in the cache and lowers satsLeft by the amount owed.
C3_Reuse ==
  [][\A r \in Req :
       (/\ Invoked(r)
        /\ Resolvable(NewTop(r).error)
        /\ currentUtxo.txid # NoTxid
        /\ currentUtxo.satsLeft >= Owed(NewTop(r).error))
       => /\ fundCalls' = fundCalls /\ txCount' = txCount
          /\ currentUtxo' = [txid |-> currentUtxo.txid, vout |-> currentUtxo.vout,
                             satsLeft |-> currentUtxo.satsLeft - Owed(NewTop(r).error)]
          /\ NewTop(r).pc = "header"
          /\ NewTop(r).txid = currentUtxo.txid /\ NewTop(r).vout = currentUtxo.vout
          /\ NewTop(r).header.state = "built" =>
               /\ NewTop(r).header.value.payload.authorization.txid = currentUtxo.txid
               /\ NewTop(r).header.value.payload.authorization.vout = currentUtxo.vout]_vars

\* an output funded with 2000 for 500 owed was reused for 1500 more
C3_Witness ==
  \E r \in Req :
    /\ Depth(r) = 1 /\ Top(r).pc = "header" /\ Top(r).branch = "reused"
    /\ Top(r).seen = 1500 /\ Top(r).paymentRequirements.minAmountRequired = 1500
    /\ currentUtxo = [txid |-> 1, vout |-> 0, satsLeft |-> 0]

\* C4: a 402 resolved while the cache is empty or holds less than the amount
\* owed calls sendPayment exactly once, and when the payment {txid, vout,
\* satsSent} comes back the cache becomes {txid, vout, satsSent - owed}.
C4_Funding ==
  [][\A r \in Req :
       /\ (/\ Invoked(r)
           /\ Resolvable(NewTop(r).error)
           /\ (currentUtxo.txid = NoTxid \/ currentUtxo.satsLeft < Owed(NewTop(r).error)))
          => /\ fundCalls'[r] = fundCalls[r] + 1
             /\ currentUtxo' = currentUtxo
             /\ NewTop(r).pc = "init"
       /\ (Continued(r) /\ Top(r).pc = "send" /\ NewTop(r).pc = "header")
          => LET owed == Owed(Top(r).error)
                 satsSent == IF signer.paymentAmountSats # NoAmount
                             THEN signer.paymentAmountSats ELSE owed
             IN  /\ txCount' = txCount + 1
                 /\ currentUtxo' = [txid |-> txCount', vout |-> 0, satsLeft |-> satsSent - owed]
                 /\ fundCalls' = fundCalls
       /\ (Len(stack'[r]) = 1 /\ NewTop(r).branch \in {"funding", "funded"})
          => fundCalls'[r] = 1]_vars

\* a second output was funded with 2000 because the first had 500 left for
\* 1500 owed: the cache holds the second with 500 left
C4_Witness ==
  \E r \in Req :
    /\ Depth(r) = 1 /\ Top(r).pc = "header" /\ Top(r).branch = "funded"
    /\ signer.paymentAmountSats = 2000
    /\ Top(r).paymentRequirements.minAmountRequired = 1500
    /\ currentUtxo = [txid |-> 2, vout |-> 0, satsLeft |-> 500]
    /\ fundCalls[r] = 1

\* C5: after every settlement the cache's satsLeft is at least 0.
C5_SatsLeftNonNegative == currentUtxo.satsLeft >= 0

OverCommitted ==
  \E p \in Reusers : \E q \in Reusers \ {p} :
    /\ stack[p[1]][p[2]].txid = stack[q[1]][q[2]].txid
    /\ High(p) > Low(q) /\ High(q) > Low(p)

C8_FailuresReject ==
  [][\A r \in Req :
       /\ (Invoked(r) /\ NewTop(r).error.hasResponse /\ NewTop(r).error.status = 402
           /\ UsableConfig(NewTop(r).error) /\ ~NewTop(r).error.config.is402Retry)
          => LET accepts == NewTop(r).error.accepts
             IN  /\ ~(accepts.present /\ accepts.isArray /\ Len(accepts.list) > 0)
                    => /\ NewTop(r).pc = "settled"
                       /\ NewTop(r).outcome =
                            Reject(Error("No payment requirements found in 402 response"))
                 /\ (accepts.present /\ accepts.isArray /\ Len(accepts.list) > 0
                     /\ Qualifying(accepts.list) = {})
                    => /\ NewTop(r).pc = "settled"
                       /\ NewTop(r).outcome =
                            Reject(Error("No BCH payment requirements found in 402 response"))
       /\ (Continued(r) /\ Top(r).pc = "init")
          => \/ NewTop(r).pc = "send"
             \/ /\ NewTop(r).pc = "settled"
                /\ NewTop(r).outcome = Reject(Error("wallet initialization failed"))
       /\ (Continued(r) /\ Top(r).pc = "send")
          => \/ NewTop(r).pc = "header"
             \/ /\ NewTop(r).pc = "settled"
                /\ NewTop(r).outcome = Reject(Error("wallet send failed"))
       /\ (Continued(r) /\ Top(r).pc = "header")
          => \/ NewTop(r).pc = "replay" /\ Top(r).header.state = "built"
             \/ /\ NewTop(r).pc = "settled" /\ Top(r).header.state = "thrown"
                /\ NewTop(r).outcome = Reject(Error("signMessage failed"))
       /\ (Invoked(r) /\ NewTop(r).pc = "settled")
          => NewTop(r).outcome.kind = "rejected"]_vars

\* the original call was rejected with the wallet's send failure
C8_Witness ==
  \E r \in Req :
    /\ Depth(r) = 1 /\ Top(r).pc = "settled"
    /\ Top(r).outcome = Reject(Error("wallet send failed"))

C10_PassThrough ==
  [][\A r \in Req :
       (Invoked(r) /\ (~NewTop(r).error.hasResponse \/ NewTop(r).error.status # 402))
       => /\ NewTop(r).pc = "settled"
          /\ NewTop(r).outcome = Reject(NewTop(r).error)
          /\ fundCalls' = fundCalls /\ replays' = replays
          /\ txCount' = txCount /\ currentUtxo' = currentUtxo
          /\ Depth(r) = 0 => NewTop(r).error \in OriginalErrors(r)
          /\ Depth(r) > 0 => NewTop(r).error.config = Top(r).error.config]_vars

\* an original request failed with status 500 and a usable configuration
\* while the cache held an output, and was rejected with that error
C10_Witness ==
  \E r \in Req :
    /\ Depth(r) = 1 /\ Top(r).pc = "settled"
    /\ Top(r).error.hasResponse /\ Top(r).error.status = 500
    /\ Top(r).error.config = GoodConfig
    /\ Top(r).outcome = Reject(Top(r).error)
    /\ currentUtxo.txid # NoTxid

\* C11: a 402 whose request configuration is absent, or has no header map,
\* is rejected with 'Missing axios request configuration', without a funding
\* call, without a replay and without a change to the cache.
C11_MalformedRequestConfig ==
  [][\A r \in Req :
       (/\ Invoked(r)
        /\ NewTop(r).error.hasResponse /\ NewTop(r).error.status = 402
        /\ (~NewTop(r).error.config.present \/ ~NewTop(r).error.config.hasHeaders))
       => /\ NewTop(r).pc = "settled"
          /\ NewTop(r).outcome = Reject(Error("Missing axios request configuration"))
          /\ fundCalls' = fundCalls /\ replays' = replays
          /\ txCount' = txCount /\ currentUtxo' = currentUtxo]_vars

\* a 402 whose configuration has no header map was rejected while the cache
\* holds an output
C11_Witness ==
  \E r \in Req :
    /\ Depth(r) = 1 /\ Top(r).pc = "settled"
    /\ Top(r).error.status = 402
    /\ Top(r).error.config.present /\ ~Top(r).error.config.hasHeaders
    /\ Top(r).outcome = Reject(Error("Missing axios request configuration"))
    /\ fundCalls[r] = 0 /\ replays[r] = 0
    /\ currentUtxo.txid # NoTxid

\* C12: a 402 (usable configuration, not a replay) whose accepts is missing,
\* not an array or empty is rejected with 'No payment requirements found in
\* 402 response' before the selector is called, without a funding call,
\* without a replay and without a change to the cache.
C12_NoRequirementsOffered ==
  [][\A r \in Req :
       (/\ Invoked(r)
        /\ NewTop(r).error.hasResponse /\ NewTop(r).error.status = 402
        /\ UsableConfig(NewTop(r).error) /\ ~NewTop(r).error.config.is402Retry
        /\ \/ ~NewTop(r).error.accepts.present
           \/ ~NewTop(r).error.accepts.isArray
           \/ Len(NewTop(r).error.accepts.list) = 0)
       => /\ NewTop(r).pc = "settled"
          /\ NewTop(r).outcome = Reject(Error("No payment requirements found in 402 response"))
          /\ selectorCalls' = selectorCalls
          /\ fundCalls' = fundCalls /\ replays' = replays
          /\ txCount' = txCount /\ currentUtxo' = currentUtxo]_vars

\* a 402 with an empty accepts array was rejected, the selector not called,
\* while the cache holds an output
C12_Witness ==
  \E r \in Req :
    /\ Depth(r) = 1 /\ Top(r).pc = "settled"
    /\ Top(r).error.status = 402 /\ UsableConfig(Top(r).error)
    /\ Top(r).error.accepts.present /\ Top(r).error.accepts.isArray
    /\ Len(Top(r).error.accepts.list) = 0
    /\ Top(r).outcome = Reject(Error("No payment requirements found in 402 response"))
    /\ selectorCalls[r] = 0 /\ fundCalls[r] = 0 /\ replays[r] = 0
    /\ currentUtxo.txid # NoTxid

\* C13: selectPaymentRequirements returns the first element, in input order,
\* whose network is supported and whose scheme is exactly 'utxo', and throws
\* if and only if no element qualifies.
C13_FirstSupportedUtxo ==
  call.op = "selectPaymentRequirements" =>
    LET q == SupportedUtxo(call.accepts)
    IN  /\ call.result.ok <=> q # {}
        /\ q # {} => \E i \in q : /\ \A j \in q : i <= j
                                  /\ call.result.value = call.accepts[i]

\* C14: a requirement's network counts as BCH when it is 'bch', the CAIP-2
\* mainnet identifier, or any identifier starting with 'bip122:'; every other
\* network is turned down.
C14_NetworkClassification ==
  (call.op = "selectPaymentRequirements" /\ Len(call.accepts) = 1
   /\ call.accepts[1].scheme = "utxo")
  => (call.result.ok <=> Supported(call.accepts[1].network))

\* C18: createPaymentHeader with version 1 emits top-level scheme and network
\* and none of accepted, resource, extensions; with version 2 or higher it
\* emits accepted (scheme, network, amount, asset, payTo, maxTimeoutSeconds,
\* extra) and no top-level scheme or network.
C18_HeaderShape ==
  (call.op = "createPaymentHeader" /\ call.result.kind = "resolved")
  => LET header == call.result.value
         keys == DOMAIN header
     IN  /\ header.x402Version = 1
            => /\ {"scheme", "network"} \subseteq keys
               /\ keys \cap {"accepted", "resource", "extensions"} = {}
         /\ header.x402Version >= 2
            => /\ "accepted" \in keys
               /\ keys \cap {"scheme", "network"} = {}

\* C16: when the challenge carries no protocol version, the signed header is
\* built with protocol version 2.
C16_DefaultVersion ==
  \A r \in Req : \A d \in 1..Len(stack[r]) :
    (/\ stack[r][d].pc \in {"header", "replay"}
     /\ stack[r][d].header.state = "built"
     /\ stack[r][d].error.version = NoVersion)
    => stack[r][d].header.value.x402Version = 2

\* C17: a replay for a version 1 challenge carries X-PAYMENT and exposes
\* X-PAYMENT-RESPONSE; a replay for a version 2 challenge carries
\* PAYMENT-SIGNATURE and exposes PAYMENT-RESPONSE; neither carries the other
\* generation's payment header.
C17_HeadersByVersion ==
  \A r \in Req : \A d \in 1..Len(stack[r]) :
    stack[r][d].pc = "replay"
    => LET headers == stack[r][d].error.config.headers
           version == stack[r][d].error.version
       IN  /\ version = 1
              => /\ "X-PAYMENT" \in DOMAIN headers
                 /\ "PAYMENT-SIGNATURE" \notin DOMAIN headers
                 /\ headers["Access-Control-Expose-Headers"] = "X-PAYMENT-RESPONSE"
           /\ version = 2
              => /\ "PAYMENT-SIGNATURE" \in DOMAIN headers
                 /\ "X-PAYMENT" \notin DOMAIN headers
                 /\ headers["Access-Control-Expose-Headers"] = "PAYMENT-RESPONSE"

\* C15: the challenge of a 402 is taken from the payment-required header
\* when that header holds base64-encoded JSON, and from the response body when
\* the header is absent or does not decode; so a 402 with a valid header and
\* an empty body is funded (the cache being empty) and goes on to the replay.
C15_ChallengeExtraction ==
  [][\A r \in Req :
       (/\ Invoked(r)
        /\ NewTop(r).error.hasResponse /\ NewTop(r).error.status = 402
        /\ UsableConfig(NewTop(r).error) /\ ~NewTop(r).error.config.is402Retry)
       => LET accepts == Challenge(NewTop(r).error).accepts
          IN  (accepts.present /\ accepts.isArray /\ Qualifying(accepts.list) # {})
              => /\ NewTop(r).pc \in {"init", "header"}
                 /\ NewTop(r).paymentRequirements = FirstQualifying(accepts.list)
                 /\ currentUtxo.txid = NoTxid
                    => NewTop(r).pc = "init" /\ fundCalls'[r] = fundCalls[r] + 1]_vars

\* C19: a requirement that carries only amount = n is settled like the
\* requirement that carries only minAmountRequired = n: the same choice
\* between funding and reuse, the same satsLeft afterwards, and the same value
\* in the signed authorization.
C19_AmountFallback ==
  [][\A r \in Req :
       /\ (Invoked(r) /\ Resolvable(NewTop(r).error))
          => LET req == FirstQualifying(NewTop(r).error.accepts.list)
             IN  /\ NewTop(r).pc = "init" <=> NeedsFunding(currentUtxo, Cost(Twin(req)))
                 /\ NewTop(r).pc = "header"
                    => currentUtxo' = ReusedCache(currentUtxo, Cost(Twin(req)))
                 /\ (NewTop(r).pc = "header" /\ NewTop(r).header.state = "built")
                    => NewTop(r).header.value.payload.authorization.value = Cost(Twin(req))
       /\ (Continued(r) /\ Top(r).pc = "send" /\ NewTop(r).pc = "header")
          => LET twin == Twin(Top(r).paymentRequirements)
             IN  /\ currentUtxo'.satsLeft = Minus(PaymentAmount(signer, twin), Cost(twin))
                 /\ NewTop(r).header.state = "built"
                    => NewTop(r).header.value.payload.authorization.value = Cost(twin)]_vars

\* C20: when the retry queue yields null instead of a transaction id, the
\* funding fails with 'Insufficient balance': the cache is not written, no
\* header is built and no replay is sent.
C20_NullSentinel ==
  [][\A r \in Req :
       QueueYieldsNull(r)
       => /\ NewTop(r).pc = "settled"
          /\ NewTop(r).outcome = Reject(Error("Insufficient balance"))
          /\ NewTop(r).header.state = "none"
          /\ currentUtxo' = currentUtxo
          /\ replays' = replays]_vars


\* the names a payment header goes by
PaymentHeaderNames == {"X-PAYMENT", "PAYMENT-SIGNATURE"}

\* the handler issued the replay of request r in this step
Replayed(r) == replays'[r] = replays[r] + 1

\* C26: a request the handler replays carries, when it is sent, the retry
\* marker, a payment header holding the signed header, and the CORS-exposure
\* header; the marker is put on in the step that issues the replay, after the
\* funding or reuse and the construction of the header have succeeded, and no
\* invocation still funding or signing has a marked configuration.
C26_ReplayCarriesMarkerAndHeaders ==
  [][\A r \in Req :
       /\ Replayed(r)
          => /\ Top(r).pc = "header" /\ Top(r).header.state = "built"
             /\ Top(r).branch \in {"funded", "reused"}
             /\ ~Top(r).error.config.is402Retry
             /\ NewTop(r).pc = "replay"
             /\ NewTop(r).error.config.is402Retry
             /\ \E name \in PaymentHeaderNames :
                  /\ name \in DOMAIN NewTop(r).error.config.headers
                  /\ NewTop(r).error.config.headers[name] = Top(r).header.value
             /\ "Access-Control-Expose-Headers" \in DOMAIN NewTop(r).error.config.headers
       /\ \A d \in 1..Len(stack'[r]) :
            stack'[r][d].pc \in {"init", "send", "header"}
            => /\ ~stack'[r][d].error.config.is402Retry
               /\ DOMAIN stack'[r][d].error.config.headers = {}]_vars

\* a replay is in flight with the marker and both headers, for a request
\* that reused the cached output
C26_Witness ==
  \E r \in Req :
    /\ Depth(r) = 1 /\ Top(r).pc = "replay" /\ Top(r).branch = "reused"
    /\ replays[r] = 1
    /\ Top(r).error.config.is402Retry
    /\ DOMAIN Top(r).error.config.headers = {"X-PAYMENT", "Access-Control-Expose-Headers"}


\* the elements of a sequence
Range(seq) == { seq[i] : i \in 1..Len(seq) }

\* the order in which one invocation passes its awaits (lines 188-223)
StepOrder ==
  { <<"init", "send">>, <<"init", "settled">>,
    <<"send", "header">>, <<"send", "settled">>,
    <<"header", "replay">>, <<"header", "settled">>,
    <<"replay", "settled">> }

\* C27: one 402 resolution selects the requirement, checks the cache, funds
\* only if the cache does not cover the amount, updates the cache, signs the
\* header, attaches it and replays, in this order: an invocation that funds
\* has selected its requirement and has no header yet, the header is signed
\* in the step that updates the cache and over the txid and vout this step
\* resolved and wrote, and the replay is issued only from there.
C27_StepOrder ==
  [][\A r \in Req :
       /\ Invoked(r) =>
            /\ NewTop(r).pc \in {"init", "header", "settled"}
            /\ NewTop(r).pc \in {"init", "header"} => selectorCalls'[r] = selectorCalls[r] + 1
            /\ NewTop(r).pc = "init" =>
                 (currentUtxo.txid = NoTxid
                    \/ currentUtxo.satsLeft < NewTop(r).paymentRequirements.minAmountRequired)
            /\ NewTop(r).pc = "header" => fundCalls' = fundCalls
       /\ Continued(r) => <<Top(r).pc, NewTop(r).pc>> \in StepOrder
       /\ (Len(stack'[r]) > 0 /\ NewTop(r).pc \in {"init", "send"} /\ stack'[r] # stack[r]) =>
            /\ NewTop(r).paymentRequirements \in Range(NewTop(r).error.accepts.list)
            /\ NewTop(r).header.state = "none"
            /\ NewTop(r).txid = NoTxid /\ NewTop(r).vout = NoVout
            /\ currentUtxo' = currentUtxo
       /\ (Len(stack'[r]) > 0 /\ NewTop(r).pc = "header" /\ stack'[r] # stack[r]) =>
            /\ NewTop(r).txid # NoTxid /\ NewTop(r).vout # NoVout
            /\ currentUtxo'.txid = NewTop(r).txid /\ currentUtxo'.vout = NewTop(r).vout
            /\ currentUtxo' # currentUtxo
            /\ NewTop(r).header.state = "built" =>
                 /\ NewTop(r).header.value.payload.authorization.txid = NewTop(r).txid
                 /\ NewTop(r).header.value.payload.authorization.vout = NewTop(r).vout
       /\ Replayed(r) =>
            /\ Top(r).pc = "header" /\ NewTop(r).pc = "replay"
            /\ currentUtxo' = currentUtxo
            /\ NewTop(r).error.config.headers["X-PAYMENT"] = Top(r).header.value]_vars

\* a resolution that had to fund went through every step and its replay is
\* in flight, the header signed over the funded transaction
C27_Witness ==
  \E r \in Req :
    /\ Depth(r) = 1 /\ Top(r).pc = "replay" /\ Top(r).branch = "funded"
    /\ selectorCalls[r] = 1 /\ fundCalls[r] = 1 /\ replays[r] = 1
    /\ Top(r).error.config.headers["X-PAYMENT"].payload.authorization.txid = Top(r).txid
    /\ currentUtxo.txid = Top(r).txid

\* C28: when the funding call fails (the wallet does not initialize or the
\* send is given up), no step of the resolution between the call and the
\* failure writes the cache, the request configuration has no retry marker
\* and no header, no replay is issued and the handler rejects.
C28_FundingFailureFrame ==
  [][\A r \in Req :
       (Continued(r) /\ Top(r).pc \in {"init", "send"} /\ NewTop(r).pc \in {"send", "settled"})
       => /\ currentUtxo' = currentUtxo
          /\ txCount' = txCount
          /\ replays' = replays /\ replays[r] = 0
          /\ NewTop(r).error = Top(r).error
          /\ ~NewTop(r).error.config.is402Retry
          /\ DOMAIN NewTop(r).error.config.headers = {}
          /\ NewTop(r).pc = "settled" => NewTop(r).outcome.kind = "rejected"]_vars

\* a funding failed while the cache held an output with too little left: the
\* cache still holds it and nothing was replayed
C28_Witness ==
  \E r \in Req :
    /\ Depth(r) = 1 /\ Top(r).pc = "settled"
    /\ Top(r).outcome = Reject(Error("wallet send failed"))
    /\ fundCalls[r] = 1 /\ replays[r] = 0
    /\ ~Top(r).error.config.is402Retry
    /\ currentUtxo = [txid |-> 1, vout |-> 0, satsLeft |-> 500]

\* C29: the cache is written before the replay is issued and nothing the
\* replay ends with takes the write back: neither the step that issues the
\* replay, nor the handler call its failure leads to (a 402 answered again is
\* turned down by the guard), nor the settling of the outer invocation
\* changes the cache.
C29_NoRollback ==
  [][\A r \in Req :
       /\ Replayed(r) => currentUtxo' = currentUtxo /\ Top(r).txid # NoTxid
       /\ (Len(stack[r]) > 0 /\ Top(r).pc = "replay" /\ stack'[r] # stack[r])
          => currentUtxo' = currentUtxo
       /\ (Len(stack[r]) > 1 /\ stack'[r] # stack[r])
          => currentUtxo' = currentUtxo]_vars

\* the replay of a funded request was answered 402 again and the handler
\* has rejected: the cache still holds the funded output, decremented
C29_Witness ==
  \E r \in Req :
    /\ Depth(r) = 1 /\ Top(r).pc = "settled"
    /\ Top(r).error.config.is402Retry
    /\ Top(r).outcome.kind = "rejected"
    /\ IsAxiosError(Top(r).outcome.value) /\ Top(r).outcome.value.status = 402
    /\ fundCalls[r] = 1 /\ replays[r] = 1
    /\ signer.paymentAmountSats = 2000
    /\ currentUtxo = [txid |-> 1, vout |-> 0, satsLeft |-> 500]


\* C30: balance conservation: in every state the cache's satsLeft is the
\* satsSent of the most recent successful funding minus the sum of the
\* amounts owed of the settlements made against the funded output, the one
\* that triggered the funding included.
C30_BalanceConservation ==
  currentUtxo.satsLeft = ledger.satsSent - ledger.settled

\* an output funded with 2000 has paid for three requests of 500 each, the
\* funding one and two reuses
C30_Witness ==
  /\ ledger = [satsSent |-> 2000, settled |-> 1500, payTo |-> PayTo]
  /\ currentUtxo = [txid |-> 1, vout |-> 0, satsLeft |-> 500]
  /\ \A r \in Req : stack[r] = << >>


\* the messages among WalletMessages that contain the text 'Insufficient
\* balance', letter for letter
InsufficientBalanceMessages ==
  {"Insufficient balance", "Error: Insufficient balance for this transaction"}

\* the queue called the function handed to it in this step
Attempted ==
  /\ call.op = "sendPayment" /\ call'.op = "sendPayment"
  /\ call'.attempts = call.attempts + 1

\* C21: when the wallet's send fails with an error whose message contains
\* 'Insufficient balance' (case-sensitive), the function handed to the retry
\* queue returns null and does not raise; every other error of the wallet's
\* send it raises unchanged.
C21_SendWithRetryWrapper ==
  [][(Attempted /\ call'.sent.kind = "rejected")
     => IF call'.sent.value.message \in InsufficientBalanceMessages
        THEN call'.returned.kind = "resolved" /\ call'.returned.value = NoTxid
        ELSE call'.returned.kind = "rejected" /\ call'.returned.value = call'.sent.value]_vars

\* the amount a requirement owes: amount, else minAmountRequired
OwedAmount(paymentRequirements) ==
  IF paymentRequirements.amount # Undefined
  THEN paymentRequirements.amount
  ELSE paymentRequirements.minAmountRequired

\* C22: the amount placed in the receiver entry is the signer's
\* paymentAmountSats when the signer has one, whatever the requirement asks
\* for, and the requirement's owed amount (amount, else minAmountRequired)
\* when the signer has none; the satsSent sendPayment returns is that amount.
C22_AmountFunded ==
  (call.op = "sendPayment" /\ call.receivers # << >>)
  => /\ call.receivers[1].amountSat =
          IF call.signer.paymentAmountSats # NoAmount
          THEN call.signer.paymentAmountSats
          ELSE OwedAmount(call.paymentRequirements)
     /\ call.result.kind = "resolved"
        => call.result.value.satsSent = call.receivers[1].amountSat

\* the URLs among ServerURLs that contain 'bch.fullstack.cash'
MatchesFullstack(bchServerURL) == bchServerURL \in {FullstackURL, FreeFullstackURL}

\* C23: a funding call takes the manual path if and only if bchServerURL
\* matches 'bch.fullstack.cash', and the delegated path (wallet send under a
\* retry queue) otherwise, also when no URL is configured.
C23_FundingPath ==
  call.op = "sendPayment"
  => /\ call.path \in {"manual", "delegated"}
     /\ call.path = "manual" <=> MatchesFullstack(call.bchServerURL)
     /\ (call.path = "manual" /\ call.pc # "init") => call.queues = 0
     /\ (call.path = "delegated" /\ call.pc # "init" /\ call.result.kind # "rejected")
        => call.queues = 1


(* -------------- the manual funding path, sendPaymentFullstack ----------- *)
\* src/index.js has no manual path; what follows is the path as section 4.3
\* of the specification and the tests of src/unnamed/part_001 (lines 584-664
\* and 980-1190) describe it.

\* the value BitcoinCash.getByteCount returns for one input and two outputs
ByteCount == 250

\* the values of the unspent outputs the provider reports
UtxoValues == {1000, 1800, 2300, 5000, 10200, 10300}

\* Electrumx.utxo(address): the unspent outputs, in the order fetched
Utxos(values) ==
  [i \in 1..Len(values) |-> [tx_hash |-> "utxo-txid", tx_pos |-> i, value |-> values[i]]]
UtxoLists == { Utxos(values) : values \in UNION { [1..n -> UtxoValues] : n \in 0..MaxLen } }

\* amount to send: signer.paymentAmountSats if present, else the amount owed
AmountToSend(sgn, paymentRequirements) ==
  IF sgn.paymentAmountSats # NoAmount
  THEN sgn.paymentAmountSats
  ELSE OwedAmount(paymentRequirements)

\* the outputs whose value is at least the amount to send, in the order fetched
Spendable(utxos, amountToSend) ==
  SelectSeq(utxos, LAMBDA utxo : utxo.value >= amountToSend)

\* the fee estimate: the byte count scaled by 1.2
Fee(byteCount) == (byteCount * 12) \div 10

\* a remainder that leaves the fee out
RemainderNoFee(utxoValue, amountToSend, fee) == utxoValue - amountToSend

\* remainder = utxoValue - amountToSend - fee
Remainder(utxoValue, amountToSend, fee) == utxoValue - amountToSend - fee

\* a change output that is added whatever the remainder is
ChangeAlways(address, remainder) == << [address |-> address, value |-> remainder] >>

\* the change output: only if the remainder is positive, to the signer's address
Change(address, remainder) ==
  IF remainder > 0 THEN << [address |-> address, value |-> remainder] >> ELSE << >>

NoTransaction == [inputs |-> << >>, outputs |-> << >>]

\* one input, the payment output first, then the change output if any
Transaction(utxo, sgn, paymentRequirements, amountToSend, remainder) ==
  [inputs |-> << [txid |-> utxo.tx_hash, vout |-> utxo.tx_pos] >>,
   outputs |-> << [address |-> paymentRequirements.payTo, value |-> amountToSend] >>
               \o Change(sgn.address, remainder)]

\* the call up to the fetch of the unspent outputs
FullstackStart(sgn, paymentRequirements) ==
  [op |-> "sendPaymentFullstack", signer |-> sgn,
   paymentRequirements |-> paymentRequirements, pc |-> "utxos",
   paymentAmountSats |-> AmountToSend(sgn, paymentRequirements),
   utxos |-> << >>, fetches |-> 0, remainder |-> 0, transaction |-> NoTransaction,
   broadcasts |-> 0, result |-> Pending]

\* from the answer of the provider to the broadcast of the transaction, or
\* to the failure that ends the call
FullstackFetched(started, fetchOk, utxos, buildOk) ==
  LET fetched == [started EXCEPT !.fetches = @ + 1]
      fail(message) == [fetched EXCEPT !.pc = "done", !.result = Reject(Error(message))]
      seen == [fetched EXCEPT !.utxos = utxos]
      spendable == Spendable(utxos, started.paymentAmountSats)
      remainder == Remainder(spendable[1].value, started.paymentAmountSats, Fee(ByteCount))
  IN  IF ~fetchOk THEN fail("Error retrieving UTXOs: Network error")
      ELSE IF Len(spendable) = 0
        THEN [seen EXCEPT !.pc = "done",
                          !.result = Reject(Error("Cannot read properties of undefined"))]
      ELSE IF remainder < 0
        THEN [seen EXCEPT !.pc = "done", !.remainder = remainder,
                          !.result = Reject(Error("Not enough BCH to complete transaction!"))]
      ELSE IF ~buildOk
        THEN [seen EXCEPT !.pc = "done", !.remainder = remainder,
                          !.result = Reject(Error("Build failed"))]
      ELSE [seen EXCEPT !.pc = "broadcast", !.remainder = remainder,
                        !.transaction = Transaction(spendable[1], started.signer,
                                                    started.paymentRequirements,
                                                    started.paymentAmountSats, remainder)]

\* the manual path is entered
CallSendPaymentFullstack ==
  /\ call = NoCall
  /\ \E sgn \in DirectSigners, paymentRequirements \in FundingRequirements :
       call' = FullstackStart(sgn, paymentRequirements)
  /\ UNCHANGED <<currentUtxo, signer, stack, txCount, fundCalls, replays, selectorCalls, ledger>>

\* the provider answers the fetch of the unspent outputs
UtxosFetched ==
  /\ call.op = "sendPaymentFullstack" /\ call.pc = "utxos"
  /\ \E fetchOk \in BOOLEAN, utxos \in UtxoLists, buildOk \in BOOLEAN :
       call' = FullstackFetched(call, fetchOk, utxos, buildOk)
  /\ UNCHANGED <<currentUtxo, signer, stack, txCount, fundCalls, replays, selectorCalls, ledger>>

\* sendRawTransaction settles: the txid of the broadcast transaction comes
\* back with vout 0, or the broadcast fails
TransactionBroadcast ==
  /\ call.op = "sendPaymentFullstack" /\ call.pc = "broadcast"
  /\ txCount < MaxTx
  /\ \/ /\ call' = [call EXCEPT !.pc = "done", !.broadcasts = @ + 1,
                                 !.result = Resolve(Payment(txCount + 1, call.paymentAmountSats))]
        /\ txCount' = txCount + 1
     \/ /\ call' = [call EXCEPT !.pc = "done", !.result = Reject(Error("Network error"))]
        /\ UNCHANGED txCount
  /\ UNCHANGED <<currentUtxo, signer, stack, fundCalls, replays, selectorCalls, ledger>>

ManualNext == CallSendPaymentFullstack \/ UtxosFetched \/ TransactionBroadcast

\* a program that funds through the manual path, once
ManualSpec == Init /\ [][ManualNext]_vars

\* the provider has answered in this step
Fetched ==
  /\ call.op = "sendPaymentFullstack" /\ call'.op = "sendPaymentFullstack"
  /\ call.pc = "utxos" /\ call'.fetches = 1 /\ call'.utxos # << >>

\* the first fetched output whose value is at least the amount to send
FirstFit(utxos, amountToSend) ==
  utxos[CHOOSE i \in 1..Len(utxos) :
          /\ utxos[i].value >= amountToSend
          /\ \A j \in 1..(i - 1) : utxos[j].value < amountToSend]

HasFit(utxos, amountToSend) == \E i \in 1..Len(utxos) : utxos[i].value >= amountToSend

C31_AtomicReuse ==
  [][\A r \in Req :
       /\ (Invoked(r) /\ NewTop(r).branch = "reused")
          => LET owed == NewTop(r).paymentRequirements.minAmountRequired
             IN  /\ NewTop(r).seen = currentUtxo.satsLeft
                 /\ currentUtxo.satsLeft >= owed
                 /\ currentUtxo'.satsLeft = currentUtxo.satsLeft - owed
                 /\ currentUtxo'.satsLeft >= 0
                 /\ NewTop(r).pc = "header"
       /\ \A d \in 1..Len(stack'[r]) :
            stack'[r][d].branch = "reused" => stack'[r][d].pc \in {"header", "replay"}
       /\ (Continued(r) /\ Top(r).branch = "reused") => currentUtxo' = currentUtxo]_vars

\* a handler reused the cached output for exactly what was left of it while
\* the handler of another request was waiting for its funding
C31_Witness ==
  \E r \in Req : \E q \in Req \ {r} :
    /\ Depth(r) = 1 /\ Top(r).branch = "reused" /\ Top(r).pc = "header"
    /\ Top(r).seen = 500 /\ Top(r).paymentRequirements.minAmountRequired = 500
    /\ currentUtxo.satsLeft = 0
    /\ Depth(q) = 1 /\ Top(q).pc = "send"


\* another handler is waiting for its funding
FundingElsewhere(r) ==
  \E q \in Req \ {r} : Len(stack[q]) > 0 /\ Top(q).pc \in {"init", "send"}

\* C32: a 402 resolution that begins while the cache is empty or holds too
\* little calls sendPayment even when another resolution is already waiting
\* for its funding; each funding that completes overwrites the cache with
\* its own txid, vout and satsSent - owed, whatever the cache held, so the
\* cache holds the funding that completed last and what was left of the
\* output funded before is gone from it.
C32_LastFundingWins ==
  [][\A r \in Req :
       /\ (/\ Invoked(r) /\ Resolvable(NewTop(r).error) /\ FundingElsewhere(r)
           /\ (currentUtxo.txid = NoTxid \/ currentUtxo.satsLeft < Owed(NewTop(r).error)))
          => /\ fundCalls'[r] = fundCalls[r] + 1
             /\ NewTop(r).pc = "init"
       /\ (Continued(r) /\ Top(r).pc = "send" /\ NewTop(r).pc = "header")
          => /\ txCount' = txCount + 1
             /\ currentUtxo'.txid = txCount' /\ NewTop(r).txid = txCount'
             /\ currentUtxo'.vout = 0
             /\ currentUtxo'.satsLeft =
                  PaymentAmount(signer, Top(r).paymentRequirements)
                    - Top(r).paymentRequirements.minAmountRequired
             /\ ledger'.settled = Top(r).paymentRequirements.minAmountRequired
       /\ currentUtxo'.txid = txCount']_vars

\* two resolutions began on an empty cache and both funded, 1500 and then
\* 500 owed out of 2000 each: the cache holds the second output with 1500
\* left, and the 500 left of the first are tracked nowhere
C32_Witness ==
  \E r \in Req : \E q \in Req \ {r} :
    /\ Depth(r) = 1 /\ Top(r).branch = "funded" /\ Top(r).txid = 1
    /\ Top(r).paymentRequirements.minAmountRequired = 1500
    /\ Depth(q) = 1 /\ Top(q).branch = "funded" /\ Top(q).txid = 2
    /\ Top(q).paymentRequirements.minAmountRequired = 500
    /\ fundCalls[r] = 1 /\ fundCalls[q] = 1
    /\ signer.paymentAmountSats = 2000
    /\ currentUtxo = [txid |-> 2, vout |-> 0, satsLeft |-> 1500]
    /\ ledger = [satsSent |-> 2000, settled |-> 500, payTo |-> PayTo]


\* C33: the cached output is reused only for a challenge whose selected
\* requirement names the payTo the output was funded for; a challenge with
\* another payTo calls sendPayment.
C33_ReuseSamePayee ==
  [][\A r \in Req :
       /\ (Invoked(r) /\ NewTop(r).branch = "reused")
          => NewTop(r).paymentRequirements.payTo = ledger.payTo
       /\ (/\ Invoked(r) /\ Resolvable(NewTop(r).error)
           /\ FirstQualifying(NewTop(r).error.accepts.list).payTo # ledger.payTo)
          => /\ NewTop(r).branch = "funding"
             /\ fundCalls'[r] = fundCalls[r] + 1]_vars


\* C34: a handler whose amount owed (amount, else minAmountRequired) is a
\* numeric string takes the branch the equal number takes, funding when the
\* cache is empty or holds less than that number and reusing otherwise, and
\* the satsLeft it writes is the number the equal number gives: the balance
\* minus it on a reuse, satsSent minus it after a funding (2000 with '1500'
\* owed gives 500).
C34_NumericString ==
  [][\A r \in Req :
       /\ (/\ Invoked(r) /\ NewTop(r).pc \in {"init", "header"}
           /\ IsString(OwedAmount(NewTop(r).paymentRequirements)))
          => LET owed == ToNumber(OwedAmount(NewTop(r).paymentRequirements))
             IN  IF currentUtxo.txid = NoTxid \/ currentUtxo.satsLeft < owed
                 THEN NewTop(r).branch = "funding" /\ currentUtxo' = currentUtxo
                 ELSE /\ NewTop(r).branch = "reused"
                      /\ currentUtxo'.satsLeft = currentUtxo.satsLeft - owed
       /\ (/\ Continued(r) /\ Top(r).pc = "send" /\ NewTop(r).pc = "header"
           /\ IsString(OwedAmount(Top(r).paymentRequirements)))
          => LET owed == ToNumber(OwedAmount(Top(r).paymentRequirements))
                 satsSent == IF signer.paymentAmountSats # NoAmount
                             THEN signer.paymentAmountSats ELSE owed
             IN  currentUtxo'.satsLeft = satsSent - owed]_vars


\* C35: in every signed authorization, on the funding branch and on the
\* reuse branch, value is the amount the requirement owes (amount, else
\* minAmountRequired), a numeric string staying a string; amount is the
\* signer's paymentAmountSats; txid and vout are the ones the same handler
\* resolved.
C35_AuthorizationFields ==
  \A r \in Req : \A d \in 1..Len(stack[r]) :
    (/\ stack[r][d].pc = "header"
     /\ stack[r][d].header.state = "built")
    => LET authorization == stack[r][d].header.value.payload.authorization
       IN  /\ stack[r][d].branch \in {"funded", "reused"}
           /\ authorization.value = OwedAmount(stack[r][d].paymentRequirements)
           /\ authorization.amount = signer.paymentAmountSats
           /\ authorization.txid = stack[r][d].txid
           /\ authorization.vout = stack[r][d].vout


\* C36: when the wallet does not initialize, sendPayment rejects with that
\* failure, no retry queue has been constructed and no send attempted; a
\* call that gets past the initialization constructs one retry queue of its
\* own, and only then are sends attempted.
C36_InitializationFirst ==
  call.op = "sendPayment" =>
       /\ call.pc = "init" => (call.queues = 0 /\ call.attempts = 0 /\ call.receivers = << >>)
       /\ call.pc = "queue" => call.queues = 1
       /\ call.attempts > 0 => call.queues = 1
       /\ (call.pc = "done" /\ call.attempts = 0)
          => /\ call.queues = 0
             /\ call.result = Reject(Error("wallet initialization failed"))
       /\ (call.pc = "done" /\ call.attempts > 0) => call.queues = 1

\* the wallet of a direct call did not initialize: the call is over, no
\* queue, no send
C36_Witness ==
  /\ call.op = "sendPayment" /\ call.pc = "done"
  /\ call.result = Reject(Error("wallet initialization failed"))
  /\ call.queues = 0 /\ call.attempts = 0 /\ txCount = 0

Running(r, d) == d <= Len(stack[r]) /\ stack[r][d].pc # "settled"
HasSettled(r, d) == d <= Len(stack[r]) /\ stack[r][d].pc = "settled"

\* a settled invocation is left as it is until its caller takes the outcome
SettlesOnce ==
  \A r \in Req : \A d \in 1..MaxDepth :
    HasSettled(r, d) => (Len(stack'[r]) < d \/ stack'[r][d] = stack[r][d])

\* a running invocation has no outcome, a settled one has one: the response
\* of the replay it issued, or an error
OneOutcome ==
  \A r \in Req : \A d \in 1..Len(stack[r]) :
    /\ Running(r, d) => stack[r][d].outcome = Pending
    /\ HasSettled(r, d) =>
         \/ /\ stack[r][d].outcome = Resolve(Response(r, d))
            /\ replays[r] >= 1
         \/ stack[r][d].outcome.kind = "rejected"

\* C38: when the initialization of the wallet, the send, the signing and the
\* replay each complete or fail, every invocation of the handler settles:
\* it resolves with the response of its replay or rejects with an error, it
\* does not stay pending and once settled its outcome does not change.
C38_EventuallySettles ==
  /\ \A r \in Req : \A d \in 1..MaxDepth : Running(r, d) ~> HasSettled(r, d)
  /\ [][SettlesOnce]_vars
  /\ []OneOutcome

\* a request that was funded and replayed has resolved with the response of
\* the replay
C38_Witness ==
  \E r \in Req :
    /\ Depth(r) = 1 /\ HasSettled(r, 1)
    /\ Top(r).outcome = Resolve(Response(r, 1))
    /\ fundCalls[r] = 1 /\ replays[r] = 1 /\ txCount >= 1

====
